---------------------------- MODULE Spec2Model ----------------------------
(***************************************************************************)
(* Vote ledger and post-detail cache of the blog API.                      *)
(*                                                                         *)
(* The state is the Post table, the Like table, the shared cache and, for  *)
(* every request worker, the statement its request is at with the          *)
(* request's local variables.  Each storage statement or cache call of a   *)
(* view is one step, so requests of different workers interleave between   *)
(* statements.  `response` is the response the latest step sent, if any.   *)
(***************************************************************************)
EXTENDS Integers, Sequences, FiniteSets, TLC

(* ------------------------------ bounds -------------------------------- *)

MaxPosts == 2

ConcPosts == 1

NumLedgerTitles == 1

NumUsers == 2

NumWorkers == 2

NumTitles == 2

(* ------------------------- program constants -------------------------- *)

CACHE_TIMEOUT == 600

HTTP_200_OK == 200

HTTP_201_CREATED == 201

HTTP_204_NO_CONTENT == 204

HTTP_400_BAD_REQUEST == 400

HTTP_404_NOT_FOUND == 404

HTTP_500_SERVER_ERROR == 500

(* ------------------------------- domains ------------------------------ *)

PostIds == 1..MaxPosts

\* The post ids that requests address while they interleave.
ConcIds == 1..ConcPosts

\* The titles written while requests address every post id.
LedgerTitles == 1..NumLedgerTitles

Users == 1..NumUsers

Workers == 1..NumWorkers

Titles == 1..NumTitles

\* What a client may send as "is_like": the JSON booleans true and false, the
\* JSON strings "True" and "yes", or no value.
RawIsLike == {"true", "false", "str_True", "str_yes", "missing"}

VARIABLES
    post_table,     \* Post rows by primary key
    next_id,        \* the next primary key the Post table hands out
    like_table,     \* Like rows of every (user, post) pair, in insertion order
    cache,          \* cache entry stored under the key post_<id>
    cache_up,       \* whether the cache backend answers
    pc,             \* the statement each worker is at
    req,            \* the local variables of each worker's request
    response,       \* the response sent by the latest step, if it sent one
    last_vote,      \* history: the decision last written for a (user, post)
                    \* pair since the pair's votes were last removed
    user_table      \* whether the User row of an account exists

vars == <<post_table, next_id, like_table, cache, cache_up, pc, req, response,
          last_vote, user_table>>

(* ------------------------------- records ------------------------------ *)

NoRow == [exists |-> FALSE, title |-> 0, views |-> 0]

NoRep == [id |-> 0, title |-> 0, views |-> 0,
          like_count |-> 0, dislike_count |-> 0, rating |-> 0]

NoCounts == [id |-> 0, title |-> 0, like_count |-> 0, dislike_count |-> 0]

NoEntry == [present |-> FALSE, data |-> NoRep, timeout |-> 0]

\* after, after_data: history, what the response before this request said
\* about the same post ("edit": an edit that removed a cache entry, with the
\* title it wrote; "miss": a detail read that missed, with what it returned).
\* A detail read records both; an edit records whether it follows an "edit".
\* raw is the value of "is_like" as the request carries it.
NoReq == [kind |-> "none", post |-> 0, user |-> 0, title |-> 0,
          raw |-> "none", is_like |-> FALSE, inst |-> NoRow, data |-> NoRep,
          after |-> "none", after_data |-> NoRep]

\* source, created, existed, perform_status and had_entry are not part of the
\* HTTP response: where the answer came from ("cache" or "db" for a detail
\* read; "get", "create" or "reget", the statement of update_or_create that
\* wrote the row, for a vote), what update_or_create returned, whether it
\* found a row, the status of the Response perform_create built, and whether
\* cache.delete found an entry.  For a delete, counts holds the numbers of
\* Like rows that instance.delete() removed with the post.
NoResp == [worker |-> 0, kind |-> "none", post |-> 0, user |-> 0,
           status |-> 0, data |-> NoRep, counts |-> NoCounts,
           raw |-> "none", is_like |-> FALSE,
           source |-> "none", created |-> FALSE, existed |-> FALSE,
           perform_status |-> 0, had_entry |-> FALSE,
           after |-> "none", after_data |-> NoRep]

(* --------------------------- models.py: Post -------------------------- *)

\* The number of rows of one (user, post) pair whose is_like is d.
Matches(rows, d) == Cardinality({i \in 1..Len(rows) : rows[i] = d})

RECURSIVE CountFrom(_, _, _)
CountFrom(u, p, d) ==
    IF u > NumUsers THEN 0
    ELSE Matches(like_table[<<u, p>>], d) + CountFrom(u + 1, p, d)

\* self.likes.filter(is_like=True).count()
like_count(p) == CountFrom(1, p, TRUE)

\* self.likes.filter(is_like=False).count()
dislike_count(p) == CountFrom(1, p, FALSE)

\* A rating that adds the dislikes instead of subtracting them.
rating_Sum(p) == like_count(p) + dislike_count(p)

\* like_count() - dislike_count()
rating(p) == like_count(p) - dislike_count(p)

\* self.views += 1; self.save()
increase_views(row) == [row EXCEPT !.views = row.views + 1]

(* ------------------------ serializers.py ------------------------------ *)

\* PostSerializer of an instance: its fields and the three computed fields.
PostSerializer(p, inst) ==
    [id |-> p, title |-> inst.title, views |-> inst.views,
     like_count |-> like_count(p), dislike_count |-> dislike_count(p),
     rating |-> rating(p)]

\* PostLikeCountSerializer.to_representation
PostLikeCountSerializer(p, inst) ==
    [id |-> p, title |-> inst.title,
     like_count |-> like_count(p), dislike_count |-> dislike_count(p)]

\* str(data) of the value the request carries.
PyStr(raw) ==
    CASE raw = "true" -> "True"
      [] raw = "false" -> "False"
      [] raw = "str_True" -> "True"
      [] raw = "str_yes" -> "yes"
      [] OTHER -> "None"

\* The keys of the ChoiceField: str(key) of the choices True and False.
ChoiceStrings == {"True", "False"}

\* LikeSerializer.is_like: a required ChoiceField over True and False, which
\* looks str(data) up among the keys.
IsLikeValid(raw) == raw # "missing" /\ PyStr(raw) \in ChoiceStrings

\* Like.is_like is a BooleanField: the value the row gets from request.data.
IsLikeValue(raw) == raw \in {"true", "str_True"}

(* ------------------------------ the cache ----------------------------- *)

\* A lookup that serializes the post again when the key is there.
CacheGet_Recompute(p) ==
    IF cache[p].present THEN PostSerializer(p, post_table[p]) ELSE NoRep

\* cache.get(key): the stored value, or None.
CacheGet(p) == IF cache[p].present THEN cache[p].data ELSE NoRep

\* cache.set(key, value, timeout)
CacheSet(p, value, timeout) ==
    [cache EXCEPT ![p] = [present |-> TRUE, data |-> value, timeout |-> timeout]]

\* A delete that clears the whole cache.
CacheDelete_Clear(p) == [q \in PostIds |-> NoEntry]

\* cache.delete(key)
CacheDelete(p) == [cache EXCEPT ![p] = NoEntry]

(* ------------------------------- Init --------------------------------- *)

Init ==
    /\ post_table = [p \in PostIds |-> NoRow]
    /\ next_id = 1
    /\ like_table = [k \in Users \X PostIds |-> <<>>]
    /\ cache = [p \in PostIds |-> NoEntry]
    /\ cache_up = TRUE
    /\ pc = [w \in Workers |-> "idle"]
    /\ req = [w \in Workers |-> NoReq]
    /\ response = NoResp
    /\ last_vote = [k \in Users \X PostIds |-> "none"]
    /\ user_table = [u \in Users |-> TRUE]

(* ------------------------- request bookkeeping ------------------------ *)

Free(w) == pc[w] = "idle"

\* A request that writes post p is being served.
WriterActive(p) ==
    \E w \in Workers : req[w].kind \in {"update", "destroy"} /\ req[w].post = p

\* What the response of the step before says about post p.
After(p) ==
    IF response.post = p /\ response.status = HTTP_200_OK
       /\ response.kind = "update" /\ response.had_entry
    THEN "edit"
    ELSE IF response.post = p /\ response.status = HTTP_200_OK
            /\ response.kind = "retrieve" /\ response.source = "db"
    THEN "miss"
    ELSE "none"

AfterData(p) ==
    IF After(p) = "miss" THEN response.data
    ELSE IF After(p) = "edit" THEN [NoRep EXCEPT !.title = response.data.title]
    ELSE NoRep

\* Worker w answers its request with r and is free again.
Answer(w, r) ==
    /\ pc' = [pc EXCEPT ![w] = "idle"]
    /\ req' = [req EXCEPT ![w] = NoReq]
    /\ response' = [r EXCEPT !.worker = w]

\* Worker w goes on with its request r at the statement `label`.
Goto(w, label, r) ==
    /\ pc' = [pc EXCEPT ![w] = label]
    /\ req' = [req EXCEPT ![w] = r]
    /\ response' = NoResp

Reply(r, status) ==
    [NoResp EXCEPT !.kind = r.kind, !.post = r.post, !.user = r.user,
                   !.raw = r.raw,
                   !.after = r.after, !.after_data = r.after_data,
                   !.status = status]

(* ---------------------- views.py: PostAPIList ------------------------- *)

\* PostAPIList.perform_create: serializer.save(author=request.user)
PostCreate(w, t) ==
    /\ Free(w)
    /\ next_id <= MaxPosts
    /\ post_table' = [post_table EXCEPT
                        ![next_id] = [exists |-> TRUE, title |-> t, views |-> 0]]
    /\ next_id' = next_id + 1
    /\ Answer(w, Reply([NoReq EXCEPT !.kind = "create", !.post = next_id],
                       HTTP_201_CREATED))
    /\ UNCHANGED <<like_table, cache, cache_up, last_vote, user_table>>

(* --------------------- views.py: PostAPIDetail ------------------------ *)

\* retrieve, lines 75-81: the cache lookup, answered from the cache on a hit.
RetrieveCacheGet(w, p) ==
    LET r == [NoReq EXCEPT !.kind = "retrieve", !.post = p,
                           !.after = After(p), !.after_data = AfterData(p)] IN
    /\ Free(w)
    /\ IF ~cache_up
       THEN Answer(w, Reply(r, HTTP_500_SERVER_ERROR))
       ELSE IF CacheGet(p) # NoRep
       THEN Answer(w, [Reply(r, HTTP_200_OK) EXCEPT !.data = CacheGet(p),
                                                    !.source = "cache"])
       ELSE Goto(w, "retrieve_db", r)
    /\ UNCHANGED <<post_table, next_id, like_table, cache, cache_up, last_vote, user_table>>

\* retrieve, line 84: super().retrieve(): get_object() and the serializer.
RetrieveDb(w) ==
    LET p == req[w].post IN
    /\ pc[w] = "retrieve_db"
    /\ IF post_table[p].exists
       THEN Goto(w, "retrieve_set",
                 [req[w] EXCEPT !.data = PostSerializer(p, post_table[p])])
       ELSE Answer(w, Reply(req[w], HTTP_404_NOT_FOUND))
    /\ UNCHANGED <<post_table, next_id, like_table, cache, cache_up, last_vote, user_table>>

\* retrieve, lines 85-87: cache.set(cache_key, response.data, timeout=600).
RetrieveCacheSet(w) ==
    /\ pc[w] = "retrieve_set"
    /\ IF ~cache_up
       THEN /\ Answer(w, Reply(req[w], HTTP_500_SERVER_ERROR))
            /\ UNCHANGED cache
       ELSE /\ cache' = CacheSet(req[w].post, req[w].data, CACHE_TIMEOUT)
            /\ Answer(w, [Reply(req[w], HTTP_200_OK) EXCEPT
                             !.data = req[w].data, !.source = "db"])
    /\ UNCHANGED <<post_table, next_id, like_table, cache_up, last_vote, user_table>>

(* ------------------ views.py: PostAPIUpdateDelete --------------------- *)

\* update: get_object(); the serializer takes the new title.
UpdateGetObject(w, p, t) ==
    LET r == [NoReq EXCEPT !.kind = "update", !.post = p, !.title = t,
                           !.after = IF After(p) = "edit" THEN "edit"
                                     ELSE "none"] IN
    /\ Free(w)
    /\ IF post_table[p].exists
       THEN Goto(w, "update_save", [r EXCEPT !.inst = post_table[p]])
       ELSE Answer(w, Reply(r, HTTP_404_NOT_FOUND))
    /\ UNCHANGED <<post_table, next_id, like_table, cache, cache_up, last_vote, user_table>>

\* Model.save() of a loaded instance: every column is written from the
\* instance, by UPDATE, or by INSERT when the UPDATE matches no row.
SaveInstance(p, inst) ==
    [post_table EXCEPT ![p] = [inst EXCEPT !.exists = TRUE]]

\* perform_update, line 106: instance = serializer.save()
UpdateSave(w) ==
    LET inst == [req[w].inst EXCEPT !.title = req[w].title] IN
    /\ pc[w] = "update_save"
    /\ post_table' = SaveInstance(req[w].post, inst)
    /\ Goto(w, "update_cache_delete", [req[w] EXCEPT !.inst = inst])
    /\ UNCHANGED <<next_id, like_table, cache, cache_up, last_vote, user_table>>

\* A perform_update that leaves the cache as it is.
UpdateInvalidate_Skip(p) == cache

\* The cache after perform_update's line 107.
UpdateInvalidate(p) == CacheDelete(p)

\* perform_update, line 107: cache.delete(f'post_{instance.id}'), then the
\* response of update() with serializer.data.
UpdateCacheDelete(w) ==
    LET p == req[w].post IN
    /\ pc[w] = "update_cache_delete"
    /\ IF ~cache_up
       THEN /\ Answer(w, Reply(req[w], HTTP_500_SERVER_ERROR))
            /\ UNCHANGED cache
       ELSE /\ cache' = UpdateInvalidate(p)
            /\ Answer(w, [Reply(req[w], HTTP_200_OK) EXCEPT
                             !.data = PostSerializer(p, req[w].inst),
                             !.had_entry = cache[p].present])
    /\ UNCHANGED <<post_table, next_id, like_table, cache_up, last_vote, user_table>>

\* destroy: get_object()
DestroyGetObject(w, p) ==
    LET r == [NoReq EXCEPT !.kind = "destroy", !.post = p] IN
    /\ Free(w)
    /\ IF post_table[p].exists
       THEN Goto(w, "destroy_cache_delete", r)
       ELSE Answer(w, Reply(r, HTTP_404_NOT_FOUND))
    /\ UNCHANGED <<post_table, next_id, like_table, cache, cache_up, last_vote, user_table>>

\* perform_destroy, line 113: cache.delete(f'post_{instance.id}')
DestroyCacheDelete(w) ==
    /\ pc[w] = "destroy_cache_delete"
    /\ IF ~cache_up
       THEN /\ Answer(w, Reply(req[w], HTTP_500_SERVER_ERROR))
            /\ UNCHANGED cache
       ELSE /\ cache' = CacheDelete(req[w].post)
            /\ Goto(w, "destroy_delete", req[w])
    /\ UNCHANGED <<post_table, next_id, like_table, cache_up, last_vote, user_table>>

\* A delete that leaves the rows of the post where they are.
CascadePost_Keep(table, p, empty) == table

\* Like.post is on_delete=CASCADE: the rows of the post go with it.
CascadePost(table, p, empty) ==
    [k \in Users \X PostIds |-> IF k[2] = p THEN empty ELSE table[k]]

\* perform_destroy, line 114: instance.delete()
DestroyDelete(w) ==
    LET p == req[w].post IN
    /\ pc[w] = "destroy_delete"
    /\ post_table' = [post_table EXCEPT ![p] = NoRow]
    /\ like_table' = CascadePost(like_table, p, <<>>)
    /\ last_vote' = CascadePost(last_vote, p, "none")
    /\ Answer(w, [Reply(req[w], HTTP_204_NO_CONTENT) EXCEPT
                     !.counts = [NoCounts EXCEPT
                                   !.like_count = like_count(p),
                                   !.dislike_count = dislike_count(p)]])
    /\ UNCHANGED <<next_id, cache, cache_up, user_table>>

(* ----------------------- views.py: LikeAPIView ------------------------ *)

\* The status of the response CreateAPIView.create() sends after
\* perform_create returns; what perform_create returns is not used.
CreateStatus(created) == HTTP_201_CREATED

\* perform_create, lines 184-187: the status of the Response it returns.
PerformCreateStatus(created) ==
    IF ~created THEN HTTP_200_OK ELSE HTTP_201_CREATED

\* serializer.data of the vote with the status create() gives it.
LikeResponse(r, created, existed, path) ==
    [Reply(r, CreateStatus(created)) EXCEPT
        !.is_like = r.is_like,
        !.source = path,
        !.created = created,
        !.existed = existed,
        !.perform_status = PerformCreateStatus(created)]

Decision(d) == IF d THEN "like" ELSE "dislike"

\* A lookup that finds a post under every id.
get_object_or_404_Any(p) == TRUE

\* get_object_or_404(Post, id=pk): whether the row is there; Http404 if not.
get_object_or_404(p) == post_table[p].exists

\* create(): serializer.is_valid(); perform_create, line 172:
\* get_object_or_404(Post, id=pk).
LikeGetPost(w, u, p, raw) ==
    LET r == [NoReq EXCEPT !.kind = "like", !.post = p, !.user = u,
                           !.raw = raw, !.is_like = IsLikeValue(raw)] IN
    /\ Free(w)
    /\ user_table[u]
    /\ IF ~IsLikeValid(raw)
       THEN Answer(w, Reply(r, HTTP_400_BAD_REQUEST))
       ELSE IF ~get_object_or_404(p)
       THEN Answer(w, Reply(r, HTTP_404_NOT_FOUND))
       ELSE Goto(w, "like_get", r)
    /\ UNCHANGED <<post_table, next_id, like_table, cache, cache_up, last_vote, user_table>>

\* An update_or_create that keeps the decision of the row it found.
UpdateRow_Keep(k, d) == like_table

\* update_or_create writes the defaults to the row it found and locked.
UpdateRow(k, d) == [like_table EXCEPT ![k] = [i \in 1..Len(@) |-> d]]

\* The insert without unique_together on (user, post).
InsertRow_NoUnique(k, d) ==
    IF post_table[k[2]].exists /\ user_table[k[1]]
    THEN [like_table EXCEPT ![k] = Append(@, d)]
    ELSE like_table

\* The insert of a (user, post) row under unique_together and the foreign
\* keys to the user and the post: the new table, or the table as it is on
\* IntegrityError.
InsertRow(k, d) ==
    IF post_table[k[2]].exists /\ user_table[k[1]] /\ like_table[k] = <<>>
    THEN [like_table EXCEPT ![k] = Append(@, d)]
    ELSE like_table

\* A perform_create that removes the post's cache entry when it writes a vote.
VoteInvalidate_Delete(p) == CacheDelete(p)

\* The cache after update_or_create has written a vote of post p:
\* perform_create makes no cache call.
VoteInvalidate(p) == cache

\* update_or_create, lines 180-183: select_for_update().get(user, post);
\* a row found is updated before its lock is released.
LikeGet(w) ==
    LET k == <<req[w].user, req[w].post>> IN
    /\ pc[w] = "like_get"
    /\ IF like_table[k] # <<>>
       THEN /\ like_table' = UpdateRow(k, req[w].is_like)
            /\ last_vote' = [last_vote EXCEPT ![k] = Decision(req[w].is_like)]
            /\ Answer(w, LikeResponse(req[w], FALSE, TRUE, "get"))
       ELSE /\ UNCHANGED <<like_table, last_vote>>
            /\ Goto(w, "like_create", req[w])
    /\ cache' = IF like_table' # like_table THEN VoteInvalidate(req[w].post)
                ELSE cache
    /\ UNCHANGED <<post_table, next_id, cache_up, user_table>>

\* update_or_create: no row was found, so create(user, post, is_like).
LikeCreate(w) ==
    LET k == <<req[w].user, req[w].post>> IN
    /\ pc[w] = "like_create"
    /\ like_table' = InsertRow(k, req[w].is_like)
    /\ IF like_table' # like_table
       THEN /\ last_vote' = [last_vote EXCEPT ![k] = Decision(req[w].is_like)]
            /\ Answer(w, LikeResponse(req[w], TRUE, FALSE, "create"))
       ELSE /\ UNCHANGED last_vote
            /\ Goto(w, "like_reget", req[w])
    /\ cache' = IF like_table' # like_table THEN VoteInvalidate(req[w].post)
                ELSE cache
    /\ UNCHANGED <<post_table, next_id, cache_up, user_table>>

\* update_or_create: the insert raised IntegrityError, so get() again; the
\* row is updated when it is there, and the error is raised when it is not.
LikeReget(w) ==
    LET k == <<req[w].user, req[w].post>> IN
    /\ pc[w] = "like_reget"
    /\ IF like_table[k] # <<>>
       THEN /\ like_table' = UpdateRow(k, req[w].is_like)
            /\ last_vote' = [last_vote EXCEPT ![k] = Decision(req[w].is_like)]
            /\ Answer(w, LikeResponse(req[w], FALSE, TRUE, "reget"))
       ELSE /\ UNCHANGED <<like_table, last_vote>>
            /\ Answer(w, Reply(req[w], HTTP_500_SERVER_ERROR))
    /\ cache' = IF like_table' # like_table THEN VoteInvalidate(req[w].post)
                ELSE cache
    /\ UNCHANGED <<post_table, next_id, cache_up, user_table>>

(* ------------------ views.py: PostLikeCountAPIView -------------------- *)

\* retrieve: get_object() and PostLikeCountSerializer
LikesCount(w, p) ==
    LET r == [NoReq EXCEPT !.kind = "likes_count", !.post = p] IN
    /\ Free(w)
    /\ IF post_table[p].exists
       THEN Answer(w, [Reply(r, HTTP_200_OK) EXCEPT
                          !.counts = PostLikeCountSerializer(p, post_table[p])])
       ELSE Answer(w, Reply(r, HTTP_404_NOT_FOUND))
    /\ UNCHANGED <<post_table, next_id, like_table, cache, cache_up, last_vote, user_table>>

(* ----------------------- models.py: Like.user ------------------------ *)

\* Like.user is on_delete=CASCADE: the rows of the user go with it.
CascadeUser(table, u, empty) ==
    [k \in Users \X PostIds |-> IF k[1] = u THEN empty ELSE table[k]]

\* The account u is deleted.
DeleteUser(u) ==
    /\ user_table[u]
    /\ user_table' = [user_table EXCEPT ![u] = FALSE]
    /\ like_table' = CascadeUser(like_table, u, <<>>)
    /\ last_vote' = CascadeUser(last_vote, u, "none")
    /\ response' = NoResp
    /\ UNCHANGED <<post_table, next_id, cache, cache_up, pc, req>>

(* ------------------------- the cache backend -------------------------- *)

\* The entry's timeout has run out since it was stored.
Expire(p) ==
    /\ cache[p].present
    /\ cache' = CacheDelete(p)
    /\ response' = NoResp
    /\ UNCHANGED <<post_table, next_id, like_table, cache_up, pc, req, last_vote, user_table>>

\* The cache backend stops answering: cache calls raise from now on.
CacheDown ==
    /\ cache_up
    /\ cache_up' = FALSE
    /\ response' = NoResp
    /\ UNCHANGED <<post_table, next_id, like_table, cache, pc, req, last_vote, user_table>>

\* The cache backend answers again.
CacheUp ==
    /\ ~cache_up
    /\ cache_up' = TRUE
    /\ response' = NoResp
    /\ UNCHANGED <<post_table, next_id, like_table, cache, pc, req, last_vote, user_table>>

(* --------------------------- specifications --------------------------- *)

\* One step of the request worker w is serving, or the first of a new one
\* on a post id of `ids`, writing a title of `titles`.
Step(w, ids, titles) ==
    \/ \E t \in titles : next_id \in ids /\ PostCreate(w, t)
    \/ \E p \in ids : RetrieveCacheGet(w, p)
    \/ RetrieveDb(w)
    \/ RetrieveCacheSet(w)
    \/ \E p \in ids, t \in titles : UpdateGetObject(w, p, t)
    \/ UpdateSave(w)
    \/ UpdateCacheDelete(w)
    \/ \E p \in ids : DestroyGetObject(w, p)
    \/ DestroyCacheDelete(w)
    \/ DestroyDelete(w)
    \/ \E u \in Users, p \in ids, raw \in RawIsLike : LikeGetPost(w, u, p, raw)
    \/ LikeGet(w)
    \/ LikeCreate(w)
    \/ LikeReget(w)
    \/ \E p \in ids : LikesCount(w, p)

\* Requests of all workers interleave; the cache backend is available.
Next ==
    \/ \E w \in Workers : Step(w, ConcIds, Titles)
    \/ \E p \in ConcIds : Expire(p)

Spec == Init /\ [][Next]_vars

\* A step of the one request being served, or the first step of a new one
\* while every worker is free.
SeqStep(ids, titles) ==
    \E w \in Workers :
        (\A v \in Workers \ {w} : Free(v)) /\ Step(w, ids, titles)

\* No concurrent requests: a worker steps only while every other one is free.
SeqNext ==
    \/ SeqStep(ConcIds, Titles)
    \/ \E p \in ConcIds : Expire(p)

SeqSpec == Init /\ [][SeqNext]_vars

\* No concurrent requests; the cache backend may fail and recover.
OutageNext ==
    \/ SeqNext
    \/ CacheDown
    \/ CacheUp

OutageSpec == Init /\ [][OutageNext]_vars

\* No concurrent requests, on every post id; accounts may be removed.
LedgerNext ==
    \/ SeqStep(PostIds, LedgerTitles)
    \/ \E p \in PostIds : Expire(p)
    \/ \E u \in Users : (\A w \in Workers : Free(w)) /\ DeleteUser(u)

LedgerSpec == Init /\ [][LedgerNext]_vars

(* ------------------------------- claims ------------------------------- *)

Pairs == Users \X PostIds

\* The Like rows of post p whose decision is d, as (user, row number).
VoteRows(p, d) ==
    {x \in UNION {{u} \X (1..Len(like_table[<<u, p>>])) : u \in Users} :
        like_table[<<x[1], p>>][x[2]] = d}

\* C1: there is at most one Like row per (user, post) pair, and once a user
\* has voted on a post there is exactly one row for the pair, holding the
\* decision of that user's most recent successful vote on the post.
C1_OneVotePerPair ==
    \A k \in Pairs :
        /\ Len(like_table[k]) <= 1
        /\ last_vote[k] # "none" => like_table[k] = <<last_vote[k] = "like">>

\* C1 witness: a user who had voted on the post has voted again, for a
\* dislike, and the pair's one row holds the dislike.
C1_Witness ==
    /\ response.kind = "like" /\ response.source = "get" /\ response.existed
    /\ ~response.is_like
    /\ last_vote[<<response.user, response.post>>] = "dislike"
    /\ like_table[<<response.user, response.post>>] = <<FALSE>>

\* C2: for every existing post the like_count, dislike_count and rating of
\* the detail representation and of the likes_count endpoint are the number
\* of Like rows of the post with decision true, the number with decision
\* false, and the first minus the second.
C2_CountsFromVotes ==
    \A p \in PostIds :
        post_table[p].exists =>
            LET likes == Cardinality(VoteRows(p, TRUE))
                dislikes == Cardinality(VoteRows(p, FALSE))
                detail == PostSerializer(p, post_table[p])
                counts == PostLikeCountSerializer(p, post_table[p])
            IN  /\ detail.like_count = likes
                /\ detail.dislike_count = dislikes
                /\ detail.rating = likes - dislikes
                /\ counts.like_count = likes
                /\ counts.dislike_count = dislikes
                /\ (response.kind = "likes_count" /\ response.post = p
                    /\ response.status = HTTP_200_OK)
                   => response.counts = counts

\* C2 witness: likes_count answers (1, 1) for a post with one like and one
\* dislike by two different users, and its rating is 0.
C2_Witness ==
    /\ response.kind = "likes_count" /\ response.status = HTTP_200_OK
    /\ response.counts.like_count = 1 /\ response.counts.dislike_count = 1
    /\ rating(response.post) = 0
    /\ \E u, v \in Users :
        /\ u # v
        /\ like_table[<<u, response.post>>] = <<TRUE>>
        /\ like_table[<<v, response.post>>] = <<FALSE>>

\* C3 (as claimed): a vote is answered created=true and HTTP 201 exactly
\* when no row of the pair existed, and created=false and HTTP 200 when one
\* did.
C3_StatusTellsCreated ==
    (response.kind = "like" /\ response.source # "none") =>
        /\ response.created <=> ~response.existed
        /\ response.status = HTTP_201_CREATED <=> ~response.existed
        /\ response.existed => response.status = HTTP_200_OK

\* C4: votes of the same user on the same post that run at the same time
\* never leave two rows for the pair, and the vote that lost the insert
\* (or won it) leaves the pair's one row holding its decision.
C4_ConcurrentVotesOneRow ==
    /\ \A k \in Pairs : Len(like_table[k]) <= 1
    /\ (response.kind = "like" /\ response.source \in {"create", "reget"})
       => like_table[<<response.user, response.post>>] = <<response.is_like>>
    /\ (response.kind = "like" /\ response.source = "reget")
       => response.existed /\ ~response.created

\* C4 witness: a vote that found no row and then lost the insert to a vote
\* of the same user on the same post has updated that row.
C4_Witness ==
    /\ response.kind = "like" /\ response.source = "reget"
    /\ response.status = HTTP_201_CREATED
    /\ like_table[<<response.user, response.post>>] = <<response.is_like>>

\* C5 (as claimed): a detail read that starts and ends while no write of
\* the post is under way returns the title the post has.
C5_ReadAfterUpdateIsFresh ==
    (/\ response.kind = "retrieve" /\ response.status = HTTP_200_OK
     /\ response.source = "cache"
     /\ post_table[response.post].exists
     /\ ~WriterActive(response.post))
    => response.data.title = post_table[response.post].title

\* C6 (as claimed): when a delete is answered the cache holds no entry for
\* the post, and no detail read that starts afterwards is answered from the
\* cache.
C6_DeletedPostIsGone ==
    /\ (response.kind = "destroy" /\ response.status = HTTP_204_NO_CONTENT)
       => ~cache[response.post].present
    /\ (/\ response.kind = "retrieve"
        /\ ~post_table[response.post].exists
        /\ ~WriterActive(response.post))
       => response.status = HTTP_404_NOT_FOUND \/ response.source = "db"

\* C7: with one request at a time, the cache entry of a post is absent when
\* an edit of the post is answered, and the detail read that follows an edit
\* which removed an entry is computed from the post table, returns the title
\* the edit wrote and stores what it returns.
C7_EditInvalidates ==
    /\ (response.kind = "update" /\ response.status = HTTP_200_OK)
       => ~cache[response.post].present
    /\ (response.kind = "retrieve" /\ response.after = "edit")
       => /\ response.status = HTTP_200_OK
          /\ response.source = "db"
          /\ response.data.title = response.after_data.title
          /\ response.data.title = post_table[response.post].title
          /\ CacheGet(response.post) = response.data

\* C7 witness: the detail read after an edit that removed a cache entry has
\* been answered from the post table with the edit's title.
C7_Witness ==
    /\ response.kind = "retrieve" /\ response.after = "edit"
    /\ response.source = "db"
    /\ response.data.title = response.after_data.title

\* C8: a detail read that misses stores what it returns under the post's key
\* with a timeout of 600 seconds; a detail read answered from the cache
\* returns the stored representation; and the detail read right after one
\* that missed is answered from the cache with the same representation.
C8_MissThenHit ==
    /\ (response.kind = "retrieve" /\ response.source = "db")
       => cache[response.post] = [present |-> TRUE, data |-> response.data,
                                  timeout |-> 600]
    /\ (response.kind = "retrieve" /\ response.source = "cache")
       => /\ response.status = HTTP_200_OK
          /\ response.data = cache[response.post].data
    /\ (response.kind = "retrieve" /\ response.after = "miss")
       => /\ response.source = "cache"
          /\ response.data = response.after_data

\* C8 witness: the read right after a miss was answered from the cache with
\* what the miss returned.
C8_Witness ==
    /\ response.kind = "retrieve" /\ response.after = "miss"
    /\ response.source = "cache"
    /\ response.data = response.after_data
    /\ response.data.id = response.post

\* C8 witness of a hit that did not recompute: the stored representation it
\* returned is no longer what the serializer gives for the post.
C8_HitIsNotRecomputed ==
    /\ response.kind = "retrieve" /\ response.source = "cache"
    /\ post_table[response.post].exists
    /\ response.data # PostSerializer(response.post, post_table[response.post])

\* C9 (as claimed): every detail read answered with the post adds one to the
\* post's view counter, and no step lowers a view counter.
C9_ReadCountsView ==
    [][/\ (response'.kind = "retrieve" /\ response'.status = HTTP_200_OK)
          => post_table'[response'.post].views
               = post_table[response'.post].views + 1
       /\ \A p \in PostIds :
            (post_table[p].exists /\ post_table'[p].exists)
            => post_table'[p].views >= post_table[p].views]_vars

\* C10 (as claimed): a detail read of an existing post is answered with the
\* post also while the cache backend is unavailable.
C10_ReadSurvivesCacheFailure ==
    (response.kind = "retrieve" /\ post_table[response.post].exists)
    => response.status = HTTP_200_OK

\* The step is the first of a vote request of worker w on post p.
VoteBegins(w, p) ==
    /\ Free(w)
    /\ \/ req'[w].kind = "like" /\ req'[w].post = p
       \/ response'.worker = w /\ response'.kind = "like" /\ response'.post = p

\* The value of "is_like" in the vote request worker w begins with the step.
VoteRaw(w) == IF req'[w].kind = "like" THEN req'[w].raw ELSE response'.raw

\* C11: a vote request with a valid decision on a post id that has no row is
\* answered HTTP 404 by its first step, and the step leaves the Like table,
\* the Post table and every cache entry as they were.
C11_VoteOnMissingPost ==
    [][\A w \in Workers, p \in PostIds :
         (VoteBegins(w, p) /\ ~post_table[p].exists /\ IsLikeValid(VoteRaw(w)))
         => /\ response'.kind = "like"
            /\ response'.status = HTTP_404_NOT_FOUND
            /\ like_table' = like_table
            /\ post_table' = post_table
            /\ cache' = cache]_vars

\* C11 witness: a valid vote on a post id without a row was answered 404
\* while another post has a vote and a cache entry.
C11_Witness ==
    /\ response.kind = "like" /\ response.status = HTTP_404_NOT_FOUND
    /\ IsLikeValid(response.raw)
    /\ ~post_table[response.post].exists
    /\ \E q \in PostIds \ {response.post}, u \in Users :
         /\ post_table[q].exists
         /\ like_table[<<u, q>>] # <<>>
         /\ cache[q].present

\* The JSON booleans.
JsonBooleans == {"true", "false"}

\* The step is one of a vote request of worker w.
VoteStep(w) ==
    \/ req[w].kind = "like" /\ pc'[w] # pc[w]
    \/ Free(w) /\ req'[w].kind = "like"
    \/ Free(w) /\ response'.worker = w /\ response'.kind = "like"

\* The value of "is_like" in the vote request whose step it is.
VoteStepRaw(w) == IF req[w].kind = "like" THEN req[w].raw ELSE VoteRaw(w)

\* C12 (as claimed): no step of a vote request whose decision is missing or
\* is not the JSON boolean true or false creates or changes a Like row, and
\* the answer to such a request is HTTP 400.
C12_NonBooleanIsRejected ==
    [][\A w \in Workers :
         (VoteStep(w) /\ VoteStepRaw(w) \notin JsonBooleans)
         => /\ like_table' = like_table
            /\ response'.kind = "like"
            /\ response'.status = HTTP_400_BAD_REQUEST]_vars

\* What holds of the decisions the serializer refuses: a vote request whose
\* decision is missing or is not a key of the ChoiceField is answered HTTP
\* 400 by its first step, which writes nothing.
C12_InvalidChoiceIsRejected ==
    [][\A w \in Workers :
         (VoteStep(w) /\ ~IsLikeValid(VoteStepRaw(w)))
         => /\ Free(w)
            /\ UNCHANGED <<like_table, post_table, cache>>
            /\ response'.kind = "like"
            /\ response'.status = HTTP_400_BAD_REQUEST]_vars

\* The string "True" was taken for a decision: a Like row was written for it.
C12_StringAccepted ==
    /\ response.kind = "like" /\ response.raw = "str_True"
    /\ response.status = HTTP_201_CREATED
    /\ like_table[<<response.user, response.post>>] = <<TRUE>>

\* C13: every Like row refers to a post row and a user row that exist; the
\* step that deletes a post removes every Like row of the post and leaves
\* the rows and the counts of every other post as they were; the step that
\* deletes a user removes every Like row of the user and leaves the rows of
\* every other user as they were.
C13_CascadeKeepsReferences ==
    [][/\ \A k \in Pairs :
            like_table'[k] # <<>> => post_table'[k[2]].exists /\ user_table'[k[1]]
       /\ \A p \in PostIds :
            (post_table[p].exists /\ ~post_table'[p].exists)
            => /\ \A u \in Users : like_table'[<<u, p>>] = <<>>
               /\ \A q \in PostIds \ {p} :
                    /\ \A u \in Users :
                         like_table'[<<u, q>>] = like_table[<<u, q>>]
                    /\ like_count(q)' = like_count(q)
                    /\ dislike_count(q)' = dislike_count(q)
                    /\ rating(q)' = rating(q)
       /\ \A u \in Users :
            (user_table[u] /\ ~user_table'[u])
            => /\ \A p \in PostIds : like_table'[<<u, p>>] = <<>>
               /\ \A v \in Users \ {u}, p \in PostIds :
                    like_table'[<<v, p>>] = like_table[<<v, p>>]]_vars

\* C13 witness: a delete removed a post together with its Like rows while
\* another post keeps a Like row and its count.
C13_Witness ==
    /\ response.kind = "destroy" /\ response.status = HTTP_204_NO_CONTENT
    /\ response.counts.like_count + response.counts.dislike_count >= 1
    /\ ~post_table[response.post].exists
    /\ \A u \in Users : like_table[<<u, response.post>>] = <<>>
    /\ \E q \in PostIds \ {response.post} :
         post_table[q].exists /\ like_count(q) + dislike_count(q) >= 1

\* A user was deleted, no Like row of the user is left, and another user's
\* vote is still counted.
C13_UserDeleted ==
    \E u \in Users, v \in Users, p \in PostIds :
        /\ ~user_table[u] /\ user_table[v]
        /\ \A q \in PostIds : like_table[<<u, q>>] = <<>>
        /\ like_table[<<v, p>>] # <<>>
        /\ like_count(p) + dislike_count(p) = 1

\* The step is the cache.delete of an edit or a delete that worker w serves.
InvalidateStep(w) ==
    /\ pc[w] \in {"update_cache_delete", "destroy_cache_delete"}
    /\ pc'[w] # pc[w]

\* C14: the cache.delete of an edit or a delete of post p leaves the entry of
\* p absent and every other entry as it was, raises no error, changes
\* nothing when the entry was absent already, and a second cache.delete of
\* p right after it would leave the cache as the first left it.
C14_InvalidateIdempotent ==
    [][\A w \in Workers :
         InvalidateStep(w)
         => LET p == req[w].post IN
            /\ ~cache'[p].present
            /\ \A q \in PostIds \ {p} : cache'[q] = cache[q]
            /\ ~cache[p].present => cache' = cache
            /\ response'.status # HTTP_500_SERVER_ERROR
            /\ CacheDelete(p)' = cache']_vars

\* C14 witness: an edit of a post right after an edit that removed the
\* post's entry found no entry, was answered, and the entry of the other
\* post is still there.
C14_Witness ==
    /\ response.kind = "update" /\ response.status = HTTP_200_OK
    /\ response.after = "edit" /\ ~response.had_entry
    /\ ~cache[response.post].present
    /\ \E q \in PostIds \ {response.post} : cache[q].present

\* C15: no step of a vote request changes a cache entry, of the post voted
\* on or of any other post; a detail read answered from the cache returns
\* the stored snapshot, whatever the votes are by then; and a detail read
\* that finds no entry (none stored yet, or expired, or removed by an edit
\* or a delete) returns the rating the votes give.
C15_VoteKeepsCache ==
    [][/\ \A w \in Workers : VoteStep(w) => cache' = cache
       /\ (response'.kind = "retrieve" /\ response'.source = "cache")
          => response'.data = cache[response'.post].data
       /\ \A p \in PostIds :
            (/\ response'.kind = "retrieve" /\ response'.source = "db"
             /\ response'.post = p)
            => response'.data.rating = rating(p)']_vars

\* C15 witness: with no user deleted, a detail read of an existing post was
\* answered from the cache with a rating that is not the rating the votes
\* give, while the other post has an entry too.
C15_Witness ==
    /\ response.kind = "retrieve" /\ response.source = "cache"
    /\ post_table[response.post].exists
    /\ \A u \in Users : user_table[u]
    /\ response.data = cache[response.post].data
    /\ response.data.rating # rating(response.post)
    /\ \E q \in PostIds \ {response.post} : cache[q].present

\* The step is the cache.set of a detail read of post p that missed and
\* computed, and it stores what the read returns.
ComputeStep(p) ==
    \E w \in Workers :
        /\ pc[w] = "retrieve_set" /\ req[w].post = p
        /\ response'.worker = w /\ response'.kind = "retrieve"
        /\ response'.source = "db"
        /\ cache'[p].data = response'.data

\* The step is the expiry of an entry: no request moves.
ExpiryStep == pc' = pc /\ req' = req /\ response' = NoResp

\* C16 (as claimed): the entry of a post goes from absent to present only by
\* the cache.set of a detail read of that post that missed and computed,
\* and from present to absent only by expiry or by the cache.delete of an
\* edit or a delete of that post; a present entry is never replaced by
\* another snapshot; and a detail read answered 404 stores nothing.
C16_EntryLifecycle ==
    [][/\ \A p \in PostIds :
            /\ (~cache[p].present /\ cache'[p].present) => ComputeStep(p)
            /\ (cache[p].present /\ ~cache'[p].present)
               => \/ ExpiryStep
                  \/ \E w \in Workers : InvalidateStep(w) /\ req[w].post = p
            /\ (cache[p].present /\ cache'[p].present) => cache'[p] = cache[p]
       /\ (response'.kind = "retrieve"
           /\ response'.status = HTTP_404_NOT_FOUND) => cache' = cache]_vars

=============================================================================
